---------------------------- MODULE Spec2Model ----------------------------
(***************************************************************************)
(* Model of create_roles_overview.py: the option parsing of main, the      *)
(* metadata fetcher get_yaml_content, the dependency linker                *)
(* add_dependencies and the inventory builder generate_projects_data.      *)
(*                                                                         *)
(* Python values are modelled as follows.                                  *)
(*   dict with insertion order (used_by_data) : sequence of [path, ids]    *)
(*   dict looked up by key (projects_data, projects_mapping) : function    *)
(*   list : sequence                                                       *)
(*   str  : string, built with \o where the code concatenates or matches   *)
(*   a dict key that may be missing : a field holding NoField              *)
(***************************************************************************)
EXTENDS Integers, Sequences, FiniteSets, TLC

VARIABLES
    \* ---- generate_projects_data
    projects,          \* gl.projects.list(...): the listing, in the order the server gives it
    snapshot,          \* what the server holds for each project id (fixed-snapshot build only)
    PATH_FILTERS,      \* module global, line 24
    GITLAB_URL,        \* module global, line 23
    pc,                \* where the run is
    i,                 \* position of the outer loop (for p in projects)
    projects_data,     \* line 231
    used_by_data,      \* line 232
    projects_mapping,  \* line 233
    projects_extern,   \* line 234
    cnt,               \* line 281
    log,               \* history: per project id, the files fetched and the outcomes reached
    \* ---- main
    argv, opts, token, show_unknown, exit_status,
    \* ---- a single call of get_yaml_content
    fetch_in, fetch_out,
    \* ---- successive calls of add_dependencies
    link_args, link_prev, link_calls

build_vars == <<projects, snapshot, PATH_FILTERS, GITLAB_URL, pc, i, projects_data,
                used_by_data, projects_mapping, projects_extern, cnt, log>>
main_vars  == <<argv, opts, token, show_unknown, exit_status>>
fetch_vars == <<fetch_in, fetch_out>>
link_vars  == <<link_args, link_prev, link_calls>>
vars == <<build_vars, main_vars, fetch_vars, link_vars>>

-----------------------------------------------------------------------------
(* Bounds of the model *)

MaxDeps == 2        \* longest dependency list of a metadata file
MaxFilters == 2     \* longest list of --filter options
MaxArgs == 2        \* most options on the command line
MaxCalls == 2       \* most successive calls of add_dependencies
MaxCallDeps == 3    \* longest dep_list of a call of add_dependencies taken alone

-----------------------------------------------------------------------------
(* Python values *)

NoField == "<absent>"                  \* a key a dict does not hold
None == "<None>"                       \* re.match found nothing
EmptyMap == [x \in {} |-> x]           \* {}
Put(f, k, v) == (k :> v) @@ f          \* f[k] = v
Range(s) == {s[n] : n \in DOMAIN s}
SeqsUpTo(S, n) == UNION {[1..m -> S] : m \in 0..n}
IsPrefix(s, t) == Len(s) <= Len(t) /\ SubSeq(t, 1, Len(s)) = s

\* GITLAB_URL is kept as the text before the host and the rest, so that
\* GITLAB_URL.replace('https://', '') can be computed.
DefaultGitlabUrl == [scheme |-> "https://", rest |-> "gitlab.example.com"]
ReplaceHttps(url) == IF url.scheme = "https://" THEN url.rest ELSE url.scheme \o url.rest

\* The paths a source URL of the inputs may name.
PathUniverse == {"g/zzz-unknown", "g/web", "u/x"}

\* re.match(r'^git@{0}:(.+).git$'.format(host), src): the captured path, or None.
\* The capture is searched among the paths of the inputs.
ReMatchSrc(url, src) ==
    LET hits == {p \in PathUniverse : src = "git@" \o ReplaceHttps(url) \o ":" \o p \o ".git"}
    IN  IF hits = {} THEN None ELSE CHOOSE p \in hits : TRUE

\* re.match(path, p.path_with_namespace) for a filter without regex operators:
\* the filter is a prefix of the path.
PathTails == {"", "web", "eb", "zzz-unknown"}
ReMatchFilter(filter, path) == \E t \in PathTails : filter \o t = path

-----------------------------------------------------------------------------
(* Inputs: dependency entries, file contents, server responses, projects *)

Dep(inc, src, name) == [include |-> inc, src |-> src, name |-> name]
DepInclude == Dep("./other.yml", NoField, NoField)
DepSrc(path) == Dep(NoField, "git@gitlab.example.com:" \o path \o ".git", NoField)
DepForeign == Dep(NoField, "https://github.com/x/y.git", "y")
DepName(n) == Dep(NoField, NoField, n)
DepAlphabet == {DepInclude, DepSrc("g/zzz-unknown"), DepSrc("g/web"), DepForeign, DepName("u/x")}
DepLists == SeqsUpTo(DepAlphabet, MaxDeps)

\* What yaml.safe_load returns: None, a str, a dict or a list.
Content(type, keys, deps) == [type |-> type, keys |-> keys, deps |-> deps]
EmptyDict == Content("dict", {}, <<>>)              \* content = {}, line 153
YamlNone == Content("none", {}, <<>>)               \* an empty file
YamlStr == Content("str", {}, <<>>)                 \* a symlink: the target path as text
MetaContents ==
    {YamlNone, YamlStr, Content("dict", {"galaxy_info"}, <<>>)}
    \cup {Content("dict", {"galaxy_info", "dependencies"}, d) : d \in DepLists}
ReqContents == {YamlNone, YamlStr} \cup {Content("list", {}, d) : d \in DepLists}

\* bool(content)
Truthy(c) ==
    CASE c.type = "none" -> FALSE
      [] c.type = "str"  -> TRUE
      [] c.type = "dict" -> c.keys # {}
      [] c.type = "list" -> Len(c.deps) > 0

\* What the server answers to repository_tree and repository_blob.
Response(tree, msg, items, blob, content) ==
    [tree |-> tree, msg |-> msg, items |-> items, blob |-> blob, content |-> content]
NotFound == Response("GitlabGetError", "404: 404 Tree Not Found", <<>>, "ok", EmptyDict)
TreeErrors ==
    {Response("GitlabHttpError", "500: server error", <<>>, "ok", EmptyDict),
     NotFound,
     Response("GitlabGetError", "403: 403 Forbidden", <<>>, "ok", EmptyDict)}
Listings(filename) == {<<>>, <<"README.md">>, <<filename>>, <<"README.md", filename>>}
Responses(filename, contents) ==
    TreeErrors
    \cup {Response("ok", "", l, "GitlabHttpError", EmptyDict) : l \in Listings(filename)}
    \cup {Response("ok", "", l, "ok", c) : l \in Listings(filename), c \in contents}
MetaResponses == Responses("main.yml", MetaContents)
ReqResponses == Responses("requirements.yml", ReqContents)

\* The projects of the inputs (id, name, path_with_namespace); archived is drawn.
Project(id, name, path, archived) ==
    [id |-> id, name |-> name, path_with_namespace |-> path, archived |-> archived]
ProjectIds == {1, 2}
Listing1 == {Project(1, n, "g/zzz-unknown", a) : n \in {"zzz-unknown", "db"}, a \in BOOLEAN}
Listing2 == {Project(2, "web", "g/web", a) : a \in BOOLEAN}
ProjectListings ==
    {<<p, q>> : p \in Listing1, q \in Listing2} \cup {<<q, p>> : p \in Listing1, q \in Listing2}

\* The filter lists main can build (no leading '/', see line 62).
FilterAlphabet == {"g/", "g/w"}
FilterLists == SeqsUpTo(FilterAlphabet, MaxFilters)


-----------------------------------------------------------------------------
(* get_yaml_content, lines 144-181 *)

Fetched(exited, content) == [exited |-> exited, content |-> content]

\* The content of path/filename, the empty dict when it cannot be had, or the
\* end of the process with sys.exit(255).
get_yaml_content(resp, filename) ==
    IF resp.tree = "GitlabHttpError" THEN Fetched(TRUE, EmptyDict)           \* lines 158-160
    ELSE IF resp.tree = "GitlabGetError" THEN Fetched(FALSE, EmptyDict)      \* lines 161-165
    ELSE IF Len(resp.items) > 0 THEN                                         \* line 166
        IF filename \notin Range(resp.items) THEN Fetched(FALSE, EmptyDict)  \* lines 170-172
        ELSE IF resp.blob = "GitlabHttpError" THEN Fetched(FALSE, EmptyDict) \* lines 175-177
        ELSE Fetched(FALSE, resp.content)                                    \* line 179
    ELSE Fetched(FALSE, EmptyDict)

-----------------------------------------------------------------------------
(* add_dependencies, lines 184-221 *)

Keys(ubd) == {ubd[n].path : n \in DOMAIN ubd}
IndexOf(ubd, key) == CHOOSE n \in DOMAIN ubd : ubd[n].path = key
IdsOf(ubd, key) == IF key \in Keys(ubd) THEN ubd[IndexOf(ubd, key)].ids ELSE <<>>

\* lines 215-219 without the membership test of line 216
RecordUseNoTest(ubd, key, prjid) ==
    IF key \in Keys(ubd)
    THEN [ubd EXCEPT ![IndexOf(ubd, key)].ids = Append(@, prjid)]
    ELSE Append(ubd, [path |-> key, ids |-> <<prjid>>])

\* lines 215-219: append prjid to used_by_data[key] unless it is there; a
\* missing key (the except branch) starts a new list.
RecordUse(ubd, key, prjid) ==
    IF key \in Keys(ubd)
    THEN IF prjid \in Range(IdsOf(ubd, key))
         THEN ubd
         ELSE [ubd EXCEPT ![IndexOf(ubd, key)].ids = Append(@, prjid)]
    ELSE Append(ubd, [path |-> key, ids |-> <<prjid>>])

Linked(ubd, external, raised) == [used_by_data |-> ubd, external |-> external, raised |-> raised]

\* add_dependencies with "continue" in the place of "break" at line 203
RECURSIVE AddDependenciesSkippingIncludes(_, _, _, _)
AddDependenciesSkippingIncludes(prjid, dep_list, ubd, external) ==
    IF dep_list = <<>> THEN Linked(ubd, external, FALSE)
    ELSE LET dep == Head(dep_list) IN
        IF dep.include # NoField
        THEN AddDependenciesSkippingIncludes(prjid, Tail(dep_list), ubd, external)
        ELSE IF dep.src = NoField
        THEN AddDependenciesSkippingIncludes(prjid, Tail(dep_list),
                 RecordUse(ubd, dep.name, prjid), Append(external, dep.name))
        ELSE IF ReMatchSrc(GITLAB_URL, dep.src) = None
        THEN Linked(ubd, external, TRUE)
        ELSE AddDependenciesSkippingIncludes(prjid, Tail(dep_list),
                 RecordUse(ubd, ReMatchSrc(GITLAB_URL, dep.src), prjid), external)

\* The loop of lines 193-219 over dep_list. raised: the call ended with the
\* AttributeError of None.group(1) at line 206, which no except clause catches.
RECURSIVE add_dependencies(_, _, _, _)
add_dependencies(prjid, dep_list, ubd, external) ==
    IF dep_list = <<>> THEN Linked(ubd, external, FALSE)
    ELSE LET dep == Head(dep_list) IN
        IF dep.include # NoField
        THEN Linked(ubd, external, FALSE)                                   \* lines 201-203: break
        ELSE IF dep.src = NoField
        THEN add_dependencies(prjid, Tail(dep_list),                        \* lines 207-219
                 RecordUse(ubd, dep.name, prjid), Append(external, dep.name))
        ELSE IF ReMatchSrc(GITLAB_URL, dep.src) = None
        THEN Linked(ubd, external, TRUE)                                    \* line 206 raises
        ELSE add_dependencies(prjid, Tail(dep_list),                        \* lines 206, 215-219
                 RecordUse(ubd, ReMatchSrc(GITLAB_URL, dep.src), prjid), external)

-----------------------------------------------------------------------------
(* generate_projects_data, lines 224-310 *)

\* The entity records keep the fields the dependency graph is made of.
Entity(state, name, url, used_by) ==
    [state |-> state, name |-> name, url |-> url, used_by |-> used_by]

\* lines 85-119
set_role_attributes(project, content) ==
    Entity("role", project.name, "git@gitlab.example.com:" \o project.path_with_namespace \o ".git", <<>>)

\* lines 122-141
set_play_attributes(project, content) ==
    Entity("play", project.name, "git@gitlab.example.com:" \o project.path_with_namespace \o ".git", <<>>)

\* line 251
PrjId(p) == p.name \o "-" \o ToString(p.id)

Data(pd, ubd, pm, pe) ==
    [projects_data |-> pd, used_by_data |-> ubd, projects_mapping |-> pm, projects_extern |-> pe]
Visit(d, outcome, events) == [data |-> d, outcome |-> outcome, events |-> events]

\* lines 259-264 and 274-277: record the entity and its path, link its dependencies
Found(d, p, attrs, deps, outcome, events) ==
    LET r == add_dependencies(PrjId(p), deps, d.used_by_data, d.projects_extern)
    IN  Visit(Data(Put(d.projects_data, PrjId(p), attrs), r.used_by_data,
                   Put(d.projects_mapping, p.path_with_namespace, PrjId(p)), r.external),
              IF r.raised THEN "Raised" ELSE outcome, events)

\* lines 247-277: the body of the inner loop for a project whose path matches
\* the filter. meta and req are the server's answers for meta/ and roles/.
LoopBody(d, p, meta, req) ==
    LET c1 == get_yaml_content(meta, "main.yml")
        c2 == get_yaml_content(req, "requirements.yml")
    IN  IF c1.exited THEN Visit(d, "Exit255", <<"meta/main.yml">>)
        ELSE IF Truthy(c1.content) THEN                                       \* line 253
            IF c1.content.type = "str"
            THEN Visit(d, "RoleSymlink", <<"meta/main.yml">>)                 \* lines 254-257
            ELSE Found(d, p, set_role_attributes(p, c1.content),
                       IF "dependencies" \in c1.content.keys THEN c1.content.deps ELSE <<>>,
                       "RoleFound", <<"meta/main.yml">>)
        ELSE IF c2.exited THEN Visit(d, "Exit255", <<"meta/main.yml", "roles/requirements.yml">>)
        ELSE IF Truthy(c2.content) THEN                                       \* line 269
            IF c2.content.type = "str"
            THEN Visit(d, "PlaySymlink", <<"meta/main.yml", "roles/requirements.yml">>)
            ELSE Found(d, p, set_play_attributes(p, c2.content), c2.content.deps,
                       "PlayFound", <<"meta/main.yml", "roles/requirements.yml">>)
        ELSE Visit(d, "NoMetadata", <<"meta/main.yml", "roles/requirements.yml">>)

\* line 288
PlaceholderId(c) == "zzz-unknown-" \o ToString(c)

\* lines 283-307: one iteration of the reconciliation loop, for the c-th entry
ReconcileEntry(pd, pm, pe, entry, c) ==
    IF entry.path \in DOMAIN pm
    THEN [pd EXCEPT ![pm[entry.path]].used_by = entry.ids]
    ELSE Put(pd, PlaceholderId(c),
             Entity(IF entry.path \in Range(pe) THEN "role_extern" ELSE "role_unknown",
                    entry.path, "", entry.ids))


-----------------------------------------------------------------------------
(* Values of the variables a specification leaves alone *)

MainIdle ==
    /\ argv = <<>> /\ opts = <<>> /\ token = "False" /\ show_unknown = FALSE
    /\ exit_status = -1
FetchIdle ==
    /\ fetch_in = [resp |-> NotFound, filename |-> "main.yml"]
    /\ fetch_out = Fetched(FALSE, EmptyDict)
LinkIdle ==
    /\ link_args = [prjid |-> "", dep_list |-> <<>>]
    /\ link_prev = Linked(<<>>, <<>>, FALSE)
    /\ link_calls = 0

\* lines 231-234: the state generate_projects_data starts from
BuildStart ==
    /\ GITLAB_URL = DefaultGitlabUrl
    /\ i = 1 /\ cnt = 0
    /\ projects_data = EmptyMap
    /\ used_by_data = <<>>
    /\ projects_mapping = EmptyMap
    /\ projects_extern = <<>>
    /\ log = [id \in ProjectIds |-> <<>>]

-----------------------------------------------------------------------------
(* The traversal of lines 237-277 and the run as a whole, as functions of    *)
(* the listing, the filters and what the server holds.                       *)

Pass(d, l, status) == [data |-> d, log |-> l, status |-> status]

\* lines 243-277: the inner loop of project p over the filters fs
RECURSIVE InnerLoop(_, _, _, _)
InnerLoop(t, p, fs, snap) ==
    IF fs = <<>> \/ t.status # "ok" THEN t
    ELSE IF ~ReMatchFilter(Head(fs), p.path_with_namespace)
    THEN InnerLoop(t, p, Tail(fs), snap)
    ELSE LET v == LoopBody(t.data, p, snap[p.id].meta, snap[p.id].req) IN
         IF v.outcome \in {"Exit255", "Raised"}
         THEN Pass(v.data, [t.log EXCEPT ![p.id] = @ \o v.events], v.outcome)
         ELSE InnerLoop(Pass(v.data,
                             [t.log EXCEPT ![p.id] = @ \o v.events \o <<v.outcome>>],
                             "ok"),
                        p, Tail(fs), snap)

\* lines 238-277: the outer loop over the listing ps
RECURSIVE OuterLoop(_, _, _, _)
OuterLoop(t, ps, fs, snap) ==
    IF ps = <<>> \/ t.status # "ok" THEN t
    ELSE IF Head(ps).archived THEN OuterLoop(t, Tail(ps), fs, snap)
    ELSE OuterLoop(InnerLoop(t, Head(ps), fs, snap), Tail(ps), fs, snap)

\* lines 281-308: the reconciliation loop from its c-th iteration on
RECURSIVE ReconcileFrom(_, _, _, _, _)
ReconcileFrom(pd, pm, pe, ubd, c) ==
    IF c >= Len(ubd) THEN pd
    ELSE ReconcileFrom(ReconcileEntry(pd, pm, pe, ubd[c + 1], c), pm, pe, ubd, c + 1)

\* lines 224-310: the status of the run and, when it returns, projects_data
generate_projects_data(ps, fs, snap) ==
    LET t == OuterLoop(Pass(Data(EmptyMap, <<>>, EmptyMap, <<>>),
                            [id \in ProjectIds |-> <<>>], "ok"), ps, fs, snap)
    IN  IF t.status # "ok" THEN [status |-> t.status, projects_data |-> EmptyMap]
        ELSE [status |-> "returned",
              projects_data |-> ReconcileFrom(t.data.projects_data, t.data.projects_mapping,
                                              t.data.projects_extern, t.data.used_by_data, 0)]

-----------------------------------------------------------------------------
(* Specification Spec: generate_projects_data against a server whose content *)
(* does not change during the run.  One step is one iteration of the outer   *)
(* loop or of the reconciliation loop.                                       *)

FileResponse(filename, c) == Response("ok", "", <<"README.md", filename>>, "ok", c)
ServerError == Response("GitlabHttpError", "500: server error", <<>>, "ok", EmptyDict)

\* What the server may hold for one project: a role, a play, symlinks, nothing,
\* or a failing listing.
Holdings ==
    {[meta |-> FileResponse("main.yml", c), req |-> NotFound] :
        c \in {x \in MetaContents : Truthy(x)}}
    \cup {[meta |-> NotFound, req |-> FileResponse("requirements.yml", c)] :
        c \in {x \in ReqContents : Truthy(x)}}
    \cup {[meta |-> NotFound, req |-> NotFound],
          [meta |-> ServerError, req |-> NotFound],
          [meta |-> NotFound, req |-> ServerError]}

\* An archived project is never fetched: what it holds is not drawn.
Snapshots(ps) ==
    {s \in [ProjectIds -> Holdings] :
        \A n \in DOMAIN ps : ps[n].archived => s[ps[n].id] = [meta |-> NotFound, req |-> NotFound]}

Init ==
    /\ projects \in ProjectListings
    /\ PATH_FILTERS \in FilterLists
    /\ snapshot \in Snapshots(projects)
    /\ pc = "loop"
    /\ BuildStart
    /\ MainIdle /\ FetchIdle /\ LinkIdle

CurPass == Pass(Data(projects_data, used_by_data, projects_mapping, projects_extern), log, "ok")
InLoop == pc = "loop" /\ i <= Len(projects)

\* lines 240-242
SkipArchived ==
    /\ InLoop /\ projects[i].archived
    /\ i' = i + 1
    /\ UNCHANGED <<projects, snapshot, PATH_FILTERS, GITLAB_URL, pc, projects_data,
                   used_by_data, projects_mapping, projects_extern, cnt, log>>
    /\ UNCHANGED <<main_vars, fetch_vars, link_vars>>

\* lines 243-277: project i against every filter, ending with `status`
VisitProject(status) ==
    /\ InLoop /\ ~projects[i].archived
    /\ LET t == InnerLoop(CurPass, projects[i], PATH_FILTERS, snapshot) IN
        /\ t.status = status
        /\ projects_data' = t.data.projects_data
        /\ used_by_data' = t.data.used_by_data
        /\ projects_mapping' = t.data.projects_mapping
        /\ projects_extern' = t.data.projects_extern
        /\ log' = t.log
    /\ pc' = (CASE status = "ok" -> "loop" [] status = "Exit255" -> "exit255"
                [] status = "Raised" -> "raised")
    /\ i' = IF status = "ok" THEN i + 1 ELSE i
    /\ UNCHANGED <<projects, snapshot, PATH_FILTERS, GITLAB_URL, cnt>>
    /\ UNCHANGED <<main_vars, fetch_vars, link_vars>>

ProjectDone == VisitProject("ok")
FetchExit == VisitProject("Exit255")      \* sys.exit(255), line 160
LinkRaise == VisitProject("Raised")       \* the uncaught AttributeError of line 206

\* lines 282-308: one iteration; the loop has made cnt iterations so far
Reconcile(known) ==
    /\ pc = "loop" /\ i > Len(projects) /\ cnt < Len(used_by_data)
    /\ (used_by_data[cnt + 1].path \in DOMAIN projects_mapping) = known
    /\ projects_data' = ReconcileEntry(projects_data, projects_mapping, projects_extern,
                                       used_by_data[cnt + 1], cnt)
    /\ cnt' = cnt + 1
    /\ UNCHANGED <<projects, snapshot, PATH_FILTERS, GITLAB_URL, pc, i,
                   used_by_data, projects_mapping, projects_extern, log>>
    /\ UNCHANGED <<main_vars, fetch_vars, link_vars>>

ReconcileResolved == Reconcile(TRUE)
ReconcilePlaceholder == Reconcile(FALSE)

\* line 310
Return ==
    /\ pc = "loop" /\ i > Len(projects) /\ cnt = Len(used_by_data)
    /\ pc' = "returned"
    /\ UNCHANGED <<projects, snapshot, PATH_FILTERS, GITLAB_URL, i, projects_data,
                   used_by_data, projects_mapping, projects_extern, cnt, log>>
    /\ UNCHANGED <<main_vars, fetch_vars, link_vars>>

Next ==
    \/ SkipArchived \/ ProjectDone \/ FetchExit \/ LinkRaise
    \/ ReconcileResolved \/ ReconcilePlaceholder \/ Return

Spec == Init /\ [][Next]_vars


-----------------------------------------------------------------------------
(* Specification SpecLink: successive calls of add_dependencies on the edge  *)
(* table, as lines 264 and 277 make them: any identity, any dependency list. *)

Identities == {"zzz-unknown-1", "web-2"}
\* The dependency lists of a call.  What follows an entry that raises at line
\* 206 is never read, so such an entry is drawn as the last one only.
CallDepLists ==
    SeqsUpTo({DepInclude, DepSrc("g/web"), DepName("u/x")}, MaxCallDeps)
    \cup {Append(l, DepForeign) :
            l \in SeqsUpTo({DepInclude, DepSrc("g/web"), DepName("u/x")}, MaxCallDeps - 1)}

InitLink ==
    /\ pc = "link"
    /\ projects = <<>> /\ PATH_FILTERS = <<>> /\ snapshot = EmptyMap
    /\ BuildStart
    /\ LinkIdle /\ MainIdle /\ FetchIdle

Link(raised) ==
    /\ pc = "link" /\ link_calls < MaxCalls
    /\ \E prjid \in Identities, dep_list \in CallDepLists :
        LET r == add_dependencies(prjid, dep_list, used_by_data, projects_extern) IN
        /\ r.raised = raised
        /\ used_by_data' = r.used_by_data
        /\ projects_extern' = r.external
        /\ link_args' = [prjid |-> prjid, dep_list |-> dep_list]
    /\ link_prev' = Linked(used_by_data, projects_extern, FALSE)
    /\ link_calls' = link_calls + 1
    /\ pc' = IF raised THEN "raised" ELSE "link"
    /\ UNCHANGED <<projects, snapshot, PATH_FILTERS, GITLAB_URL, i, projects_data,
                   projects_mapping, cnt, log>>
    /\ UNCHANGED <<main_vars, fetch_vars>>

LinkReturns == Link(FALSE)
LinkRaises == Link(TRUE)

NextLink == LinkReturns \/ LinkRaises

SpecLink == InitLink /\ [][NextLink]_vars

-----------------------------------------------------------------------------
(* Specification SpecFetch: one call of get_yaml_content, for every answer   *)
(* of the server.                                                            *)

InitFetch ==
    /\ pc = "fetch"
    /\ fetch_in \in [resp : MetaResponses \cup ReqResponses,
                     filename : {"main.yml", "requirements.yml"}]
    /\ fetch_out = Fetched(FALSE, EmptyDict)
    /\ projects = <<>> /\ PATH_FILTERS = <<>> /\ snapshot = EmptyMap
    /\ BuildStart
    /\ MainIdle /\ LinkIdle

Fetch(exited) ==
    /\ pc = "fetch"
    /\ get_yaml_content(fetch_in.resp, fetch_in.filename).exited = exited
    /\ fetch_out' = get_yaml_content(fetch_in.resp, fetch_in.filename)
    /\ pc' = IF exited THEN "exit255" ELSE "fetched"
    /\ UNCHANGED <<fetch_in, projects, snapshot, PATH_FILTERS, GITLAB_URL, i, projects_data,
                   used_by_data, projects_mapping, projects_extern, cnt, log>>
    /\ UNCHANGED <<main_vars, link_vars>>

FetchReturns == Fetch(FALSE)
FetchExits == Fetch(TRUE)

NextFetch == FetchReturns \/ FetchExits

SpecFetch == InitFetch /\ [][NextFetch]_vars


-----------------------------------------------------------------------------
(* Specification SpecMain: main, lines 43-79, up to the call of              *)
(* generate_projects_data.  An element of argv is an option with its value.  *)

Opt(o, a) == [o |-> o, a |-> a]
OtherUrl == [scheme |-> "http://", rest |-> "git.local"]
\* A URL given as text, split as GITLAB_URL is kept
SplitUrl(a) == CHOOSE u \in {DefaultGitlabUrl, OtherUrl} : u.scheme \o u.rest = a
ArgvOptions ==
    {Opt("--token", "secret"), Opt("-t", "secret"),
     Opt("--gitlab-url", "http://git.local"), Opt("-g", "http://git.local"),
     Opt("--filter", "/g/"), Opt("-f", "g/w"),
     Opt("--show-unknown", ""), Opt("-U", ""),
     Opt("--help", ""), Opt("-h", ""),
     Opt("--verbose", "")}

\* line 48: the options getopt.getopt is told to accept
ShortOptions == {"-f", "-g", "-h", "-t", "-U"}
LongOptions == {"--filter", "--help", "--token", "--show-unknown"}

\* a.lstrip('/'), line 62
Slashes(n) == IF n = 0 THEN "" ELSE IF n = 1 THEN "/" ELSE "//"
LStrip(a) == CHOOSE c \in FilterAlphabet : \E n \in 0..2 : Slashes(n) \o c = a

InitMain ==
    /\ pc = "getopt"
    /\ argv \in SeqsUpTo(ArgvOptions, MaxArgs)
    /\ opts = <<>> /\ token = "False" /\ show_unknown = FALSE /\ exit_status = -1
    /\ projects = <<>> /\ PATH_FILTERS = <<>> /\ snapshot = EmptyMap
    /\ BuildStart
    /\ FetchIdle /\ LinkIdle

BuildUnchanged ==
    UNCHANGED <<projects, snapshot, i, projects_data, used_by_data, projects_mapping,
                projects_extern, cnt, log, fetch_vars, link_vars>>

\* lines 51-54: getopt.GetoptError
GetoptError ==
    /\ pc = "getopt"
    /\ \E n \in DOMAIN argv : argv[n].o \notin ShortOptions \cup LongOptions
    /\ pc' = "exited" /\ exit_status' = 2
    /\ UNCHANGED <<argv, opts, token, show_unknown, PATH_FILTERS, GITLAB_URL>>
    /\ BuildUnchanged

\* lines 48-50, 55-56
GetoptReturns ==
    /\ pc = "getopt"
    /\ \A n \in DOMAIN argv : argv[n].o \in ShortOptions \cup LongOptions
    /\ opts' = argv /\ token' = "False" /\ show_unknown' = FALSE
    /\ pc' = "options"
    /\ UNCHANGED <<argv, exit_status, PATH_FILTERS, GITLAB_URL>>
    /\ BuildUnchanged

AtOption == pc = "options" /\ opts # <<>>

\* lines 58-60
OptionHelp ==
    /\ AtOption /\ Head(opts).o \in {"-h", "--help"}
    /\ pc' = "exited" /\ exit_status' = 0
    /\ UNCHANGED <<argv, opts, token, show_unknown, PATH_FILTERS, GITLAB_URL>>
    /\ BuildUnchanged

\* lines 61-62
OptionFilter ==
    /\ AtOption /\ Head(opts).o \in {"-f", "--filter"}
    /\ PATH_FILTERS' = Append(PATH_FILTERS, LStrip(Head(opts).a))
    /\ opts' = Tail(opts)
    /\ UNCHANGED <<argv, pc, token, show_unknown, exit_status, GITLAB_URL>>
    /\ BuildUnchanged

\* lines 63-64
OptionGitlabUrl ==
    /\ AtOption /\ Head(opts).o \in {"-g", "--gitlab-url"}
    /\ GITLAB_URL' = SplitUrl(Head(opts).a)
    /\ opts' = Tail(opts)
    /\ UNCHANGED <<argv, pc, token, show_unknown, exit_status, PATH_FILTERS>>
    /\ BuildUnchanged

\* lines 65-66
OptionToken ==
    /\ AtOption /\ Head(opts).o \in {"-t", "--token"}
    /\ token' = Head(opts).a
    /\ opts' = Tail(opts)
    /\ UNCHANGED <<argv, pc, show_unknown, exit_status, PATH_FILTERS, GITLAB_URL>>
    /\ BuildUnchanged

\* lines 67-68
OptionShowUnknown ==
    /\ AtOption /\ Head(opts).o \in {"-U", "--show-unkown"}
    /\ show_unknown' = TRUE
    /\ opts' = Tail(opts)
    /\ UNCHANGED <<argv, pc, token, exit_status, PATH_FILTERS, GITLAB_URL>>
    /\ BuildUnchanged

\* lines 69-70: assert False, "unhandled option"; the AssertionError ends the process
OptionUnhandled ==
    /\ AtOption
    /\ Head(opts).o \notin {"-h", "--help", "-f", "--filter", "-g", "--gitlab-url",
                            "-t", "--token", "-U", "--show-unkown"}
    /\ pc' = "assertion" /\ exit_status' = 1
    /\ UNCHANGED <<argv, opts, token, show_unknown, PATH_FILTERS, GITLAB_URL>>
    /\ BuildUnchanged

\* lines 72-77: gl.auth() succeeds, or fails and the process exits with 1
Authenticate ==
    /\ pc = "options" /\ opts = <<>>
    /\ \/ pc' = "generate" /\ exit_status' = exit_status
       \/ pc' = "exited" /\ exit_status' = 1
    /\ UNCHANGED <<argv, opts, token, show_unknown, PATH_FILTERS, GITLAB_URL>>
    /\ BuildUnchanged

NextMain ==
    \/ GetoptError \/ GetoptReturns
    \/ OptionHelp \/ OptionFilter \/ OptionGitlabUrl \/ OptionToken
    \/ OptionShowUnknown \/ OptionUnhandled
    \/ Authenticate

SpecMain == InitMain /\ [][NextMain]_vars


-----------------------------------------------------------------------------
(* What the claims speak of, read off the inputs *)

Count(l, S) == Cardinality({n \in DOMAIN l : l[n] \in S})
NoRepeats(l) == \A m, n \in DOMAIN l : l[m] = l[n] => m = n
TerminalOutcomes == {"RoleFound", "PlayFound", "RoleSymlink", "PlaySymlink", "NoMetadata"}

\* p is not archived and its path matches at least one filter
Selected(p) ==
    /\ ~p.archived
    /\ \E n \in DOMAIN PATH_FILTERS : ReMatchFilter(PATH_FILTERS[n], p.path_with_namespace)

HeldMeta(p) == snapshot[p.id].meta.content
HeldReq(p) == snapshot[p.id].req.content
HoldsRole(p) == snapshot[p.id].meta.tree = "ok" /\ HeldMeta(p).type = "dict"
HoldsPlay(p) ==
    /\ snapshot[p.id].meta = NotFound
    /\ snapshot[p.id].req.tree = "ok" /\ HeldReq(p).type = "list"

\* the repositories recorded as a role or as a play
Recorded == {p \in Range(projects) : Selected(p) /\ (HoldsRole(p) \/ HoldsPlay(p))}
KindHeld(p) == IF HoldsRole(p) THEN "role" ELSE "play"
DeclaredDeps(p) == IF HoldsRole(p) THEN HeldMeta(p).deps ELSE HeldReq(p).deps

\* the entries of a dependency list that come before its first include entry
Includes(deps) == {n \in DOMAIN deps : deps[n].include # NoField}
BeforeInclude(deps) ==
    IF Includes(deps) = {} THEN deps
    ELSE SubSeq(deps, 1, (CHOOSE n \in Includes(deps) : \A m \in Includes(deps) : n <= m) - 1)

\* the references a recorded repository declares
References(p) == Range(BeforeInclude(DeclaredDeps(p)))
TargetKey(dep) == IF dep.src = NoField THEN dep.name ELSE ReMatchSrc(GITLAB_URL, dep.src)
Declarers(key) == {PrjId(q) : q \in {r \in Recorded : \E d \in References(r) : TargetKey(d) = key}}

PlaceholderKinds == {"role_extern", "role_unknown"}
Placeholders == {e \in DOMAIN projects_data : projects_data[e].state \in PlaceholderKinds}
PlaceholdersNamed(key) == {e \in Placeholders : projects_data[e].name = key}
Returned == pc = "returned"

-----------------------------------------------------------------------------
(* C1 *)

\* C1: every repository that is not archived and matches at least one filter
\* is processed exactly once and reaches exactly one terminal state;
\* meta/main.yml is fetched at most once per repository, roles/requirements.yml
\* at most once and never after a role was found or a role symlink skipped.
\* The code runs the loop body once per matching filter, so this is violated.
C1_ProcessedExactlyOnce ==
    \A n \in DOMAIN projects :
        LET p == projects[n]
            l == log[p.id]
        IN  /\ Count(l, {"meta/main.yml"}) <= 1
            /\ Count(l, {"roles/requirements.yml"}) <= 1
            /\ Count(l, TerminalOutcomes) <= 1
            /\ (Selected(p) /\ (n < i \/ Returned)) => Count(l, TerminalOutcomes) = 1
            /\ \A k, m \in DOMAIN l :
                (k < m /\ l[m] = "roles/requirements.yml") => l[k] \notin {"RoleFound", "RoleSymlink"}

-----------------------------------------------------------------------------
(* C2 *)

\* the identity the n-th iteration of the reconciliation loop assigns used_by to
AssignedIdentity(n) ==
    IF used_by_data[n].path \in DOMAIN projects_mapping
    THEN projects_mapping[used_by_data[n].path]
    ELSE PlaceholderId(n - 1)

\* C2: when generate_projects_data has returned, the entity of every
\* repository recorded as a role or play is of that kind and its used_by holds
\* exactly the identities of the recorded repositories that declare, before
\* any include, a reference to its path; and no identity is assigned used_by
\* from two entries of the edge table.  Violated when a placeholder identity
\* equals the identity of a recorded repository (C7).
C2_UsedByIsDeclarers ==
    Returned =>
        /\ \A p \in Recorded :
            /\ PrjId(p) \in DOMAIN projects_data
            /\ projects_data[PrjId(p)].state = KindHeld(p)
            /\ Range(projects_data[PrjId(p)].used_by) = Declarers(p.path_with_namespace)
        /\ \A m, n \in DOMAIN used_by_data :
            AssignedIdentity(m) = AssignedIdentity(n) => m = n

-----------------------------------------------------------------------------
(* C3 *)

\* the entities that stand for a target key: the discovered one, or placeholders
EntitiesFor(key) ==
    IF key \in {p.path_with_namespace : p \in Recorded}
    THEN {PrjId(p) : p \in {r \in Recorded : r.path_with_namespace = key}}
    ELSE PlaceholdersNamed(key)

\* C3: handling a reference that is not an include never ends the run, whether
\* its src matches the host pattern, does not match it or is absent; and when
\* the run has returned, the declaring identity is in the used_by of exactly one
\* entity standing for the target, with exactly one placeholder per unresolved
\* target.  Violated: a src that does not match raises at line 206.
C3_EveryReferenceOneEdge ==
    /\ pc # "raised"
    /\ Returned =>
        /\ \A q \in Recorded : \A d \in References(q) :
            Cardinality({e \in EntitiesFor(TargetKey(d)) \cap DOMAIN projects_data :
                            PrjId(q) \in Range(projects_data[e].used_by)}) = 1
        /\ \A n \in DOMAIN used_by_data :
            used_by_data[n].path \notin DOMAIN projects_mapping
                => Cardinality(PlaceholdersNamed(used_by_data[n].path)) = 1

-----------------------------------------------------------------------------
(* C6 *)

\* the references without a src field, as <<declaring identity, name>>
DeclaredBare ==
    UNION {{<<PrjId(q), d.name>> : d \in {x \in References(q) : x.src = NoField}} : q \in Recorded}

\* C6: when the run has returned, a placeholder has the kind the code writes
\* "role_extern" (the spec's role_external) exactly when some reference without
\* src named its key, and "role_unknown" otherwise; and a reference {name: N}
\* without src, N not the path of a recorded repository, has a placeholder named
\* N of kind "role_extern" whose used_by holds the declaring identity.
\* Violated when a placeholder identity equals the identity of a recorded
\* repository (C7): the placeholder's used_by is then overwritten.
C6_ExternalPlaceholders ==
    Returned =>
        /\ \A e \in Placeholders :
            (projects_data[e].state = "role_extern")
                <=> (\E r \in DeclaredBare : r[2] = projects_data[e].name)
        /\ \A r \in DeclaredBare :
            r[2] \notin {p.path_with_namespace : p \in Recorded} =>
                \E e \in PlaceholdersNamed(r[2]) :
                    /\ projects_data[e].state = "role_extern"
                    /\ r[1] \in Range(projects_data[e].used_by)

-----------------------------------------------------------------------------
(* C7 *)

\* C7: no placeholder identity "zzz-unknown-<counter>" equals the identity
\* name-id of a discovered entity, whatever the names and ids, so a discovered
\* entity keeps its kind, name and url once created.  Violated by a repository
\* named "zzz-unknown" whose id equals the counter.
C7_PlaceholderNeverReplaces ==
    /\ \A n \in 1..cnt :
        used_by_data[n].path \notin DOMAIN projects_mapping
            => PlaceholderId(n - 1) \notin {projects_mapping[k] : k \in DOMAIN projects_mapping}
    /\ \A k \in DOMAIN projects_mapping :
        /\ projects_data[projects_mapping[k]].state \in {"role", "play"}
        /\ projects_data[projects_mapping[k]].url # ""

-----------------------------------------------------------------------------
(* C10 *)

ListingOrders(ps) == {q \in [DOMAIN ps -> Range(ps)] : Range(q) = Range(ps)}

\* a result up to the order inside used_by and the number in placeholder identities
Summary(pd) ==
    [discovered |-> {<<e, pd[e].state, Range(pd[e].used_by)>> :
                        e \in {x \in DOMAIN pd : pd[x].state \in {"role", "play"}}},
     placeholders |-> {<<pd[e].name, pd[e].state, Range(pd[e].used_by)>> :
                        e \in {x \in DOMAIN pd : pd[x].state \in PlaceholderKinds}}]

\* C10: the result does not depend on the order of the listing: every
\* permutation of the listing gives the same discovered entities, placeholder
\* names and kinds, and used_by sets; and a reference to a recorded repository
\* never ends in a placeholder, wherever the repository stands in the listing.
\* Violated: whether a placeholder identity meets the identity of a recorded
\* repository (C7) depends on the order of the edge table.
C10_OrderIndependent ==
    Returned =>
        /\ \A q \in ListingOrders(projects) :
            LET r == generate_projects_data(q, PATH_FILTERS, snapshot) IN
            /\ r.status = "returned"
            /\ Summary(r.projects_data) = Summary(projects_data)
        /\ \A p \in Recorded : PlaceholdersNamed(p.path_with_namespace) = {}

-----------------------------------------------------------------------------
(* C4 *)

\* the listing of the directory failed with something else than not-found
ListingFailed == fetch_in.resp.tree # "ok" /\ fetch_in.resp # NotFound
\* the file was retrieved: the directory was listed, holds the file, the blob came
Retrieved ==
    /\ fetch_in.resp.tree = "ok"
    /\ fetch_in.filename \in Range(fetch_in.resp.items)
    /\ fetch_in.resp.blob = "ok"

\* C4: get_yaml_content ends the process with status 255 on every failure of
\* the directory listing that is not a not-found condition, and only then; it
\* returns empty content without having retrieved the file only when the
\* directory does not exist, is empty or does not hold the file.
\* Violated: a GitlabGetError other than 404 is logged and empty content is
\* returned (lines 161-165), and so is a failure of the blob (lines 175-177).
C4_AbortOnListingError ==
    /\ pc = "exit255" => ListingFailed
    /\ pc = "fetched" =>
        /\ ~ListingFailed
        /\ ~Retrieved =>
            /\ fetch_out.content = EmptyDict
            /\ \/ fetch_in.resp = NotFound
               \/ fetch_in.resp.tree = "ok" /\ fetch_in.resp.items = <<>>
               \/ fetch_in.resp.tree = "ok"
                    /\ fetch_in.filename \notin Range(fetch_in.resp.items)

-----------------------------------------------------------------------------
(* C5 *)

\* C5: in every state reached by successive calls of add_dependencies, with
\* any identities and any dependency lists, no list of the edge table
\* used_by_data holds the same declaring identity twice.
C5_NoDuplicateIdentity ==
    \A n \in DOMAIN used_by_data : NoRepeats(used_by_data[n].ids)

\* the same dependency declared twice by a repository that was linked to the
\* same target by the call before
C5_DeclaredTwiceLinkedTwice ==
    /\ pc = "link" /\ link_calls = 2
    /\ Len(link_args.dep_list) >= 2
    /\ link_args.dep_list[1] = DepSrc("g/web")
    /\ link_args.dep_list[2] = DepSrc("g/web")
    /\ link_args.prjid \in Range(IdsOf(link_prev.used_by_data, "g/web"))
    /\ IdsOf(used_by_data, "g/web") = <<link_args.prjid>>

-----------------------------------------------------------------------------
(* C8 *)

KeysBeforeInclude(deps) == {TargetKey(d) : d \in Range(BeforeInclude(deps))}
\* the names add_dependencies appends to external for a list without include
RECURSIVE BareNames(_)
BareNames(deps) ==
    IF deps = <<>> THEN <<>>
    ELSE IF Head(deps).src = NoField THEN <<Head(deps).name>> \o BareNames(Tail(deps))
    ELSE BareNames(Tail(deps))
KeySeq(ubd) == [n \in DOMAIN ubd |-> ubd[n].path]

\* C8: a call of add_dependencies that returns and whose dep_list holds an
\* include entry leaves every list of the edge table as it was, except that
\* the caller's identity is appended to the lists of the targets named before
\* the include where it was missing; the keys of the table are those it had
\* and those targets, in the order they had; the external list grows by the
\* bare names before the include and by nothing else.  So no edge comes from
\* the include or from an entry after it, and what other repositories
\* recorded is unchanged.
C8_IncludeStopsList ==
    (pc = "link" /\ link_calls > 0 /\ Includes(link_args.dep_list) # {}) =>
        LET old == link_prev.used_by_data
            before == KeysBeforeInclude(link_args.dep_list)
        IN  /\ Keys(used_by_data) = Keys(old) \cup before
            /\ IsPrefix(KeySeq(old), KeySeq(used_by_data))
            /\ \A k \in Keys(used_by_data) :
                IdsOf(used_by_data, k) =
                    IF k \in before /\ link_args.prjid \notin Range(IdsOf(old, k))
                    THEN Append(IdsOf(old, k), link_args.prjid)
                    ELSE IdsOf(old, k)
            /\ projects_extern =
                link_prev.external \o BareNames(BeforeInclude(link_args.dep_list))

\* an include between two references, met by the second repository linked
C8_IncludeBetweenReferences ==
    /\ pc = "link" /\ link_calls = 2
    /\ link_args.prjid = "web-2"
    /\ link_args.dep_list = <<DepName("u/x"), DepInclude, DepSrc("g/web")>>
    /\ IdsOf(link_prev.used_by_data, "g/web") = <<"zzz-unknown-1">>
    /\ IdsOf(link_prev.used_by_data, "u/x") = <<"zzz-unknown-1">>
    /\ IdsOf(used_by_data, "u/x") = <<"zzz-unknown-1", "web-2">>
    /\ IdsOf(used_by_data, "g/web") = <<"zzz-unknown-1">>

-----------------------------------------------------------------------------
(* C9 *)

\* the flags of the command-line surface, with the short forms usage() prints
DocumentedFlags ==
    {"--token", "--gitlab-url", "--filter", "--show-unknown", "--help",
     "-t", "-g", "-f", "-U", "-h"}
\* the option the loop of line 57 is at
Current == Head(opts)

\* C9: main ends with status 2 only when the command line holds a flag that
\* is not documented; no documented flag reaches the assertion "unhandled
\* option"; and when the options are all consumed, every documented flag of
\* the command line has had its effect: --token the credential, --gitlab-url
\* the host URL, --filter its value in PATH_FILTERS, --show-unknown the flag.
\* Violated: getopt is not told of "gitlab-url" (lines 48-50), and line 67
\* tests "--show-unkown", so --show-unknown reaches the assertion of line 70.
C9_DocumentedFlagsAccepted ==
    /\ exit_status = 2 => \E n \in DOMAIN argv : argv[n].o \notin DocumentedFlags
    /\ pc = "assertion" => Current.o \notin DocumentedFlags
    /\ (pc = "options" /\ opts = <<>>) =>
        \A n \in DOMAIN argv :
            /\ argv[n].o \in {"-t", "--token"} => token # "False"
            /\ argv[n].o \in {"-g", "--gitlab-url"} => GITLAB_URL = SplitUrl(argv[n].a)
            /\ argv[n].o \in {"-f", "--filter"} => LStrip(argv[n].a) \in Range(PATH_FILTERS)
            /\ argv[n].o \in {"-U", "--show-unknown"} => show_unknown

=============================================================================
